---- MODULE Spec2Model ----
(***************************************************************************)
(* A model of loop_archive.py: the Job Driver (main), the Archive Engine   *)
(* (archive, archive_move, loop_delete, archive_delete), the Source Access *)
(* Scope (SourcePathContext), the Mount Manager (mount, umount) and the    *)
(* Process Runner (_run_process).                                          *)
(*                                                                         *)
(* A directory is a function from entry names to entries.  An entry is a   *)
(* regular file or a subdirectory: pathlib's rglob('*') and glob(pattern)  *)
(* yield both kinds, so both are kept.  The entries below a subdirectory   *)
(* are not modelled apart from it; a subdirectory stands for itself (its   *)
(* own st_size and st_mtime as the filesystem reports them).               *)
(* Scope of the model: subdirectories carry the name "dir0", which no      *)
(* regular file carries, so shutil.copy2 never targets an existing         *)
(* directory of the destination.                                           *)
(***************************************************************************)
EXTENDS Integers, Sequences, FiniteSets, TLC

\* ---------------------------------------------------------------- bounds
MaxSize == 1
MaxTime == 3
MaxLoopSize == 2

\* Entry names: <<stem, extension>>, or <<stem>> for a name without a dot.
FileNames == {<<"file0", "MP4">>, <<"file1", "MP4">>, <<"file0", "THM">>}
DirNames == {<<"dir0">>}
Names == FileNames \cup DirNames

\* Glob patterns: <<"*">> is '*', <<"*", "MP4">> is '*.MP4', and so on.
Patterns == {<<"*">>, <<"*", "MP4">>, <<"*", "THM">>, <<"file0", "*">>}

\* ------------------------------------------------------------ directories
Absent == [kind |-> "absent", size |-> 0, mtime |-> 0, data |-> <<>>]

File(size, mtime, data) ==
  [kind |-> "file", size |-> size, mtime |-> mtime, data |-> data]

Dir(size, mtime) == [kind |-> "dir", size |-> size, mtime |-> mtime, data |-> <<>>]

EmptyDirectory == [n \in Names |-> Absent]

\* path.rglob('*') / path.glob('*'): the names of the entries of a directory.
Entries(d) == {n \in Names : d[n].kind # "absent"}

\* fnmatch of one name against one pattern, segment by segment.
Matches(pattern, name) ==
  IF Len(pattern) = 1
    THEN pattern[1] = "*" \/ (Len(name) = 1 /\ name[1] = pattern[1])
    ELSE /\ Len(name) = 2
         /\ pattern[1] = "*" \/ pattern[1] = name[1]
         /\ pattern[2] = "*" \/ pattern[2] = name[2]

RECURSIVE SumSizes(_, _)
SumSizes(d, S) ==
  IF S = {} THEN 0
  ELSE LET n == CHOOSE x \in S : TRUE IN d[n].size + SumSizes(d, S \ {n})

\* sum(item.stat().st_size for item in path.rglob('*'))
get_directory_size(d) == SumSizes(d, Entries(d))

\* All orders in which the names of S can be enumerated.
RECURSIVE Orders(_)
Orders(S) ==
  IF S = {} THEN {<<>>}
  ELSE UNION {{<<n>> \o t : t \in Orders(S \ {n})} : n \in S}

IsAscending(d, s) ==
  \A j \in 1..(Len(s) - 1) : d[s[j]].mtime <= d[s[j + 1]].mtime

IsDescending(d, s) ==
  \A j \in 1..(Len(s) - 1) : d[s[j]].mtime >= d[s[j + 1]].mtime

\* The loop condition of loop_delete, one too lax: a faulty variant.
over_quota_lax(d, loop_size) == get_directory_size(d) > loop_size + 1

\* The loop condition of loop_delete, one too eager: a faulty variant.
over_quota_eager(d, loop_size) == get_directory_size(d) >= loop_size

\* while get_directory_size(destination_path) > loop_size
over_quota(d, loop_size) == get_directory_size(d) > loop_size

\* The position of name n in the enumeration order o.
Position(o, n) == CHOOSE j \in 1..Len(o) : o[j] = n

\* s keeps the order o among entries of equal mtime: sorted() is stable.
IsStable(d, o, s) ==
  \A j, k \in 1..Len(s) :
    (j < k /\ d[s[j]].mtime = d[s[k]].mtime)
      => Position(o, s[j]) < Position(o, s[k])

\* s lists its names in the order o.
Follows(o, s) ==
  \A j, k \in 1..Len(s) : j < k => Position(o, s[j]) < Position(o, s[k])

\* The generator sorting newest first: a faulty variant.
make_directory_iterator_reversed(orders, d) ==
  {s \in Orders(Entries(d)) :
     IsDescending(d, s) /\ \E o \in orders : IsStable(d, o, s)}

\* sorted(path.rglob('*'), key=st_mtime): the snapshots the generator can
\* hold, rglob enumerating in one of `orders`.
make_directory_iterator(orders, d) ==
  {s \in Orders(Entries(d)) :
     IsAscending(d, s) /\ \E o \in orders : IsStable(d, o, s)}

\* source_path.glob(pattern): the matching entries, enumerated in one of
\* `orders`.
glob(orders, d, pattern) ==
  {s \in Orders({n \in Entries(d) : Matches(pattern, n)}) :
     \E o \in orders : Follows(o, s)}

\* ------------------------------------------------------------------ state
VARIABLES
  dry_run,            \* _DRY_RUN.value
  dry_run_loop,       \* _DRY_RUN_LOOP.value
  source_specs,       \* config.source_specs
  destination_spec,   \* config.destination_spec: is_dir, loop_size
  device,             \* device[k]: the directory held by the device of source k
  destination,        \* the directory at destination_spec.path
  tmpdirs,            \* the temporary directories that exist (tempfile.mkdtemp)
  tmp_count,          \* number of mkdtemp calls so far; names the next one
  mounts,             \* the temporary directories a device is mounted on
  source_path,        \* SourcePathContext.source_path; 0 is None
  returncode,         \* process.returncode of the last _run_process
  pc,                 \* position of the running call
  i,                  \* main: index of the source_spec being processed
  exc,                \* the exception in flight, "none" if there is none
  deletion_iterator,  \* loop_delete: the generator, not started or its rest
  pattern_idx,        \* archive_move / archive_delete: index of the pattern
  items,              \* archive_move / archive_delete: rest of the glob
  log,                \* the logged archive actions, in order
  spawned,            \* the commands subprocess.run really executed
  entry,              \* the function the run was started with
  attempted,          \* main: the sources archive() was called for
  skipped,            \* main: the sources skipped after a MountError
  old,                \* source and destination when the current step began
  scan,               \* the orders in which the filesystem may enumerate names
  initial,            \* the devices, the destination and the temporary
                      \* directories when the run began
  rehearsal,          \* the dry run made before this run, if any, and its log
  calls               \* number of calls made on a SourcePathContext used alone

vars == <<dry_run, dry_run_loop, source_specs, destination_spec, device,
          destination, tmpdirs, tmp_count, mounts, source_path, returncode, pc,
          i, exc, deletion_iterator, pattern_idx, items, log, spawned, entry,
          attempted, skipped, old, scan, initial, rehearsal, calls>>

config == <<dry_run, dry_run_loop, source_specs, destination_spec, entry,
            skipped, scan, initial, rehearsal, calls>>
scope == <<tmpdirs, tmp_count, mounts, source_path, returncode>>
globbing == <<pattern_idx, items>>

NotStarted == [started |-> FALSE, rest |-> <<>>]

\* The steps looking at _DRY_RUN.value only: a faulty variant.
DryRunLoop_global_only == dry_run

\* _DRY_RUN.value or _DRY_RUN_LOOP.value
DryRunLoop == dry_run \/ dry_run_loop

\* The directory seen at source_path: the device's when it is mounted there,
\* the bare temporary directory otherwise.
SourceDir == IF source_path \in mounts THEN device[i] ELSE EmptyDirectory

Snapshot == [source |-> SourceDir, destination |-> destination]

\* Where control goes when a step of the pipeline returns or raises.
\* `old` is taken anew when archive() goes from one step to the next.
NextOld == IF entry = "main" THEN Snapshot ELSE old

\* An archive() that calls archive_delete before loop_delete: a faulty
\* variant.
ReturnTo_misordered(next) ==
  IF entry # "main" THEN "returned"
  ELSE IF next = "loop_delete" THEN "archive_delete"
  ELSE IF next = "archive_delete" THEN "exit"
  ELSE IF next = "exit" THEN "loop_delete"
  ELSE next

ReturnTo(next) == IF entry = "main" THEN next ELSE "returned"

\* Where an exception raised outside the with body goes: to the handlers of
\* main, or out of the function that was called.
Raise == IF entry = "main" THEN "handler" ELSE "raised"

\* A body without the with statement, an exception leaving it at once: a
\* faulty variant.
RaiseInBody_without_exit == IF entry = "main" THEN "handler" ELSE "raised"

\* with SourcePathContext(...): an exception of the body runs __exit__.
RaiseInBody == IF entry = "main" THEN "exit" ELSE "raised"

\* ------------------------------------------------------------ loop_delete
\* while get_directory_size(destination_path) > loop_size: is false.
loop_delete_return ==
  /\ pc = "loop_delete"
  /\ ~over_quota(destination, destination_spec.loop_size)
  /\ pc' = ReturnTo("archive_delete")
  /\ deletion_iterator' = NotStarted
  /\ old' = NextOld
  /\ UNCHANGED <<config, device, destination, scope, i, exc, globbing, log,
                 spawned, attempted>>

\* pathlib.Path.unlink(): the error it raises on entry n of d, if any.
unlink_error(d, n) ==
  IF d[n].kind = "file" THEN "none"
  ELSE IF d[n].kind = "dir" THEN "IsADirectoryError"
  ELSE "FileNotFoundError"

\* What one pass of the loop body raises with the generator at `it`: next()
\* on the exhausted generator raises StopIteration, unlink() may raise.
loop_delete_error(it) ==
  IF it = <<>> THEN "StopIteration"
  ELSE IF DryRunLoop THEN "none"
  ELSE unlink_error(destination, Head(it))

\* The generator as it stands at next(): its body runs at the first next().
IteratorStates ==
  IF deletion_iterator.started
    THEN {deletion_iterator.rest}
    ELSE make_directory_iterator(scan, destination)

\* next(deletion_iterator), dry run: log the candidate and break.
loop_delete_dry_run ==
  /\ pc = "loop_delete"
  /\ over_quota(destination, destination_spec.loop_size)
  /\ DryRunLoop
  /\ \E it \in IteratorStates :
       /\ it # <<>>
       /\ log' = Append(log, <<"loop", Head(it)>>)
  /\ pc' = ReturnTo("archive_delete")
  /\ deletion_iterator' = NotStarted
  /\ old' = NextOld
  /\ UNCHANGED <<config, device, destination, scope, i, exc, globbing,
                 spawned, attempted>>

\* next(deletion_iterator); deletion_candidate.unlink() on a regular file.
loop_delete_unlink ==
  /\ pc = "loop_delete"
  /\ over_quota(destination, destination_spec.loop_size)
  /\ ~DryRunLoop
  /\ \E it \in IteratorStates :
       /\ loop_delete_error(it) = "none"
       /\ log' = Append(log, <<"loop", Head(it)>>)
       /\ destination' = [destination EXCEPT ![Head(it)] = Absent]
       /\ deletion_iterator' = [started |-> TRUE, rest |-> Tail(it)]
  /\ UNCHANGED <<config, device, scope, pc, i, exc, globbing, spawned,
                 attempted, old>>

loop_delete_raise ==
  /\ pc = "loop_delete"
  /\ over_quota(destination, destination_spec.loop_size)
  /\ \E it \in IteratorStates :
       /\ loop_delete_error(it) # "none"
       /\ exc' = loop_delete_error(it)
       /\ log' = IF it = <<>> THEN log ELSE Append(log, <<"loop", Head(it)>>)
  /\ pc' = RaiseInBody
  /\ deletion_iterator' = NotStarted
  /\ UNCHANGED <<config, device, destination, scope, i, globbing, spawned,
                 attempted, old>>

loop_delete ==
  \/ loop_delete_return
  \/ loop_delete_dry_run
  \/ loop_delete_unlink
  \/ loop_delete_raise

\* ----------------------------------------------------------- archive_move
\* Writes to the directory at source_path go to the mounted device.
patterns == source_specs[i].patterns

\* The globs of all patterns evaluated before the first file is moved: a
\* faulty variant.
archive_move_glob_eager ==
  /\ pc = "archive_move"
  /\ items = <<>>
  /\ pattern_idx < Len(patterns)
  /\ pattern_idx' = pattern_idx + 1
  /\ items' \in glob(scan, old.source, patterns[pattern_idx + 1])
  /\ UNCHANGED <<config, device, destination, scope, pc, i, exc,
                 deletion_iterator, log, spawned, attempted, old>>

\* for pattern in patterns: the next pattern's glob is evaluated.
archive_move_glob ==
  /\ pc = "archive_move"
  /\ items = <<>>
  /\ pattern_idx < Len(patterns)
  /\ pattern_idx' = pattern_idx + 1
  /\ items' \in glob(scan, SourceDir, patterns[pattern_idx + 1])
  /\ UNCHANGED <<config, device, destination, scope, pc, i, exc,
                 deletion_iterator, log, spawned, attempted, old>>

\* The patterns are exhausted: archive_move returns.
archive_move_return ==
  /\ pc = "archive_move"
  /\ items = <<>>
  /\ pattern_idx = Len(patterns)
  /\ pattern_idx' = 0
  /\ pc' = ReturnTo("loop_delete")
  /\ old' = NextOld
  /\ UNCHANGED <<config, device, destination, scope, i, exc, items,
                 deletion_iterator, log, spawned, attempted>>

\* Dry run: log the item and continue.
archive_move_dry_run ==
  /\ pc = "archive_move"
  /\ items # <<>>
  /\ DryRunLoop
  /\ log' = Append(log, <<"move", Head(items)>>)
  /\ items' = Tail(items)
  /\ UNCHANGED <<config, device, destination, scope, pc, i, exc, pattern_idx,
                 deletion_iterator, spawned, attempted, old>>

\* shutil.copy2(src, dst): the error it raises on entry n of d, if any.
copy2_error(d, n) ==
  IF d[n].kind = "file" THEN "none"
  ELSE IF d[n].kind = "dir" THEN "IsADirectoryError"
  ELSE "FileNotFoundError"

\* shutil.copy: the content without the metadata, the mtime being the time
\* of the copy: a faulty variant.
copy(e) == File(e.size, MaxTime + 1, e.data)

\* shutil.copy2: the copy carries the content and the metadata (mtime) of
\* the original, and replaces a file of that name.
copy2(e) == File(e.size, e.mtime, e.data)

\* item.unlink() first, the copy still to come: a faulty variant.
archive_move_copy_after_unlink ==
  /\ pc = "archive_move"
  /\ items # <<>>
  /\ ~DryRunLoop
  /\ copy2_error(SourceDir, Head(items)) = "none"
  /\ log' = Append(log, <<"move", Head(items)>>)
  /\ device' = [device EXCEPT ![i][Head(items)] = Absent]
  /\ pc' = "archive_move_unlink"
  /\ UNCHANGED <<config, destination, scope, i, exc, globbing,
                 deletion_iterator, spawned, attempted, old>>

\* shutil.copy2(item, destination_path / item.name)
archive_move_copy ==
  /\ pc = "archive_move"
  /\ items # <<>>
  /\ ~DryRunLoop
  /\ copy2_error(SourceDir, Head(items)) = "none"
  /\ log' = Append(log, <<"move", Head(items)>>)
  /\ destination' =
       [destination EXCEPT ![Head(items)] = copy2(SourceDir[Head(items)])]
  /\ pc' = "archive_move_unlink"
  /\ UNCHANGED <<config, device, scope, i, exc, globbing, deletion_iterator,
                 spawned, attempted, old>>

\* shutil.copy2 raises: archive_move raises with it.
archive_move_raise ==
  /\ pc = "archive_move"
  /\ items # <<>>
  /\ ~DryRunLoop
  /\ copy2_error(SourceDir, Head(items)) # "none"
  /\ log' = Append(log, <<"move", Head(items)>>)
  /\ exc' = copy2_error(SourceDir, Head(items))
  /\ pc' = RaiseInBody
  /\ pattern_idx' = 0
  /\ items' = <<>>
  /\ UNCHANGED <<config, device, destination, scope, i, deletion_iterator,
                 spawned, attempted, old>>

\* item.unlink(), after the copy.
archive_move_unlink ==
  /\ pc = "archive_move_unlink"
  /\ device' = [device EXCEPT ![i][Head(items)] = Absent]
  /\ items' = Tail(items)
  /\ pc' = "archive_move"
  /\ UNCHANGED <<config, destination, scope, i, exc, pattern_idx,
                 deletion_iterator, log, spawned, attempted, old>>

archive_move ==
  \/ archive_move_glob
  \/ archive_move_return
  \/ archive_move_dry_run
  \/ archive_move_copy
  \/ archive_move_raise
  \/ archive_move_unlink

\* --------------------------------------------------------- archive_delete
\* archive_delete called with the patterns of archive_move: a faulty
\* variant.
delete_patterns_of_move == source_specs[i].patterns

\* source_spec.delete_patterns
delete_patterns == source_specs[i].delete_patterns

archive_delete_glob ==
  /\ pc = "archive_delete"
  /\ items = <<>>
  /\ pattern_idx < Len(delete_patterns)
  /\ pattern_idx' = pattern_idx + 1
  /\ items' \in glob(scan, SourceDir, delete_patterns[pattern_idx + 1])
  /\ UNCHANGED <<config, device, destination, scope, pc, i, exc,
                 deletion_iterator, log, spawned, attempted, old>>

archive_delete_return ==
  /\ pc = "archive_delete"
  /\ items = <<>>
  /\ pattern_idx = Len(delete_patterns)
  /\ pattern_idx' = 0
  /\ pc' = ReturnTo("exit")
  /\ old' = NextOld
  /\ UNCHANGED <<config, device, destination, scope, i, exc, items,
                 deletion_iterator, log, spawned, attempted>>

archive_delete_dry_run ==
  /\ pc = "archive_delete"
  /\ items # <<>>
  /\ DryRunLoop
  /\ log' = Append(log, <<"delete", Head(items)>>)
  /\ items' = Tail(items)
  /\ UNCHANGED <<config, device, destination, scope, pc, i, exc, pattern_idx,
                 deletion_iterator, spawned, attempted, old>>

\* item.unlink()
archive_delete_unlink ==
  /\ pc = "archive_delete"
  /\ items # <<>>
  /\ ~DryRunLoop
  /\ unlink_error(SourceDir, Head(items)) = "none"
  /\ log' = Append(log, <<"delete", Head(items)>>)
  /\ device' = [device EXCEPT ![i][Head(items)] = Absent]
  /\ items' = Tail(items)
  /\ UNCHANGED <<config, destination, scope, pc, i, exc, pattern_idx,
                 deletion_iterator, spawned, attempted, old>>

archive_delete_raise ==
  /\ pc = "archive_delete"
  /\ items # <<>>
  /\ ~DryRunLoop
  /\ unlink_error(SourceDir, Head(items)) # "none"
  /\ log' = Append(log, <<"delete", Head(items)>>)
  /\ exc' = unlink_error(SourceDir, Head(items))
  /\ pc' = RaiseInBody
  /\ pattern_idx' = 0
  /\ items' = <<>>
  /\ UNCHANGED <<config, device, destination, scope, i, deletion_iterator,
                 spawned, attempted, old>>

archive_delete ==
  \/ archive_delete_glob
  \/ archive_delete_return
  \/ archive_delete_dry_run
  \/ archive_delete_unlink
  \/ archive_delete_raise

\* ----------------------------------------------------------- _run_process
\* The return codes _run_process can report: 0 without running anything in a
\* dry run, else whatever the command exits with.
ReturnCodes == IF dry_run THEN {0} ELSE {0, 1}

\* subprocess.run is called unless _DRY_RUN is set.
_run_process(args) == IF dry_run THEN spawned ELSE Append(spawned, args)

\* ------------------------------------------------------ SourcePathContext
\* archive: the destination is checked, then SourcePathContext(source_spec)
\* is constructed with source_path = None.
archive_validate ==
  /\ pc = "archive"
  /\ destination_spec.is_dir
  /\ source_path' = 0
  /\ pc' = "enter"
  /\ UNCHANGED <<config, device, destination, tmpdirs, tmp_count, mounts,
                 returncode, i, exc, deletion_iterator, globbing, log, spawned, attempted,
                 old>>

archive_invalid_destination ==
  /\ pc = "archive"
  /\ ~destination_spec.is_dir
  /\ exc' = "ValueError"
  /\ pc' = "handler"
  /\ UNCHANGED <<config, device, destination, scope, i, deletion_iterator,
                 globbing, log, spawned, attempted, old>>

\* __enter__ -> setup_source_spec, storage_device: mkdtemp, then mount.
\* mount succeeds (return code 0).
setup_source_spec ==
  /\ pc = "enter"
  /\ source_path = 0
  /\ source_specs[i].location = "storage_device"
  /\ \E code \in ReturnCodes :
       /\ code = 0
       /\ returncode' = code
       /\ tmp_count' = tmp_count + 1
       /\ tmpdirs' = tmpdirs \cup {tmp_count + 1}
       /\ source_path' = tmp_count + 1
       /\ spawned' = _run_process(<<"mount", tmp_count + 1>>)
       /\ mounts' = IF dry_run THEN mounts ELSE mounts \cup {tmp_count + 1}
  /\ pc' = ReturnTo("archive_move")
  /\ old' = [source |-> IF dry_run THEN EmptyDirectory ELSE device[i],
             destination |-> destination]
  /\ UNCHANGED <<config, device, destination, i, exc, deletion_iterator,
                 globbing, log, attempted>>

\* mount exits nonzero: MountError leaves __enter__, so __exit__ is not run.
setup_source_spec_mount_error ==
  /\ pc = "enter"
  /\ source_path = 0
  /\ source_specs[i].location = "storage_device"
  /\ \E code \in ReturnCodes :
       /\ code # 0
       /\ returncode' = code
       /\ tmp_count' = tmp_count + 1
       /\ tmpdirs' = tmpdirs \cup {tmp_count + 1}
       /\ source_path' = tmp_count + 1
       /\ spawned' = _run_process(<<"mount", tmp_count + 1>>)
  /\ exc' = "MountError"
  /\ pc' = Raise
  /\ UNCHANGED <<config, device, destination, mounts, i, deletion_iterator,
                 globbing, log, attempted, old>>

\* A setup that looks at the location only after mkdtemp: a faulty
\* variant.
setup_source_spec_unsupported_late ==
  /\ pc = "enter"
  /\ source_path = 0
  /\ source_specs[i].location # "storage_device"
  /\ tmp_count' = tmp_count + 1
  /\ tmpdirs' = tmpdirs \cup {tmp_count + 1}
  /\ source_path' = tmp_count + 1
  /\ exc' = "ValueError"
  /\ pc' = Raise
  /\ UNCHANGED <<config, device, destination, mounts, returncode, i,
                 deletion_iterator, globbing, log, spawned, attempted, old>>

\* Unsupported SourceSpec.location: ValueError before anything is created.
setup_source_spec_unsupported ==
  /\ pc = "enter"
  /\ source_path = 0
  /\ source_specs[i].location # "storage_device"
  /\ exc' = "ValueError"
  /\ pc' = Raise
  /\ UNCHANGED <<config, device, destination, scope, i, deletion_iterator,
                 globbing, log, spawned, attempted, old>>

\* __exit__ -> teardown_source_spec: umount succeeds, rmdir, source_path =
\* None.  __exit__ returns None, so an exception of the body goes on.
teardown_source_spec ==
  /\ pc = "exit"
  /\ source_specs[i].location = "storage_device"
  /\ source_path # 0
  /\ \E code \in ReturnCodes :
       /\ code = 0
       /\ returncode' = code
       /\ spawned' = _run_process(<<"umount", source_path>>)
  /\ mounts' = mounts \ {source_path}
  /\ tmpdirs' = tmpdirs \ {source_path}
  /\ source_path' = 0
  /\ pc' = IF exc = "none" THEN ReturnTo("main") ELSE Raise
  /\ i' = IF exc = "none" /\ entry = "main" THEN i + 1 ELSE i
  /\ UNCHANGED <<config, device, destination, tmp_count, exc,
                 deletion_iterator, globbing, log, attempted, old>>

\* umount exits nonzero: RuntimeError, before rmdir and before source_path
\* is reset.
teardown_source_spec_umount_error ==
  /\ pc = "exit"
  /\ source_specs[i].location = "storage_device"
  /\ \E code \in ReturnCodes :
       /\ code # 0
       /\ returncode' = code
       /\ spawned' = _run_process(<<"umount", source_path>>)
  /\ exc' = "RuntimeError"
  /\ pc' = Raise
  /\ UNCHANGED <<config, device, destination, tmpdirs, tmp_count, mounts,
                 source_path, i, deletion_iterator,
                 globbing, log, attempted, old>>

\* ------------------------------------------------------------------- main
\* for source_spec in config.source_specs: archive(source_spec, ...)
main_archive ==
  /\ pc = "main"
  /\ i <= Len(source_specs)
  /\ attempted' = Append(attempted, i)
  /\ pc' = "archive"
  /\ UNCHANGED <<config, device, destination, scope, i, exc,
                 deletion_iterator, globbing, log, spawned, old>>

main_done ==
  /\ pc = "main"
  /\ i > Len(source_specs)
  /\ pc' = "done"
  /\ UNCHANGED <<config, device, destination, scope, i, exc,
                 deletion_iterator, globbing, log, spawned, attempted, old>>

\* A handler that logs the MountError and raises it again: a faulty
\* variant.
main_except_MountError_reraise ==
  /\ pc = "handler"
  /\ exc = "MountError"
  /\ skipped' = Append(skipped, i)
  /\ pc' = "fatal"
  /\ UNCHANGED <<dry_run, dry_run_loop, source_specs, destination_spec, entry,
                 scan, initial, rehearsal, calls, device, destination, scope, i, exc,
                 deletion_iterator,
                 globbing, log, spawned, attempted, old>>

\* except MountError: log a warning, go on with the next source.
main_except_MountError ==
  /\ pc = "handler"
  /\ exc = "MountError"
  /\ skipped' = Append(skipped, i)
  /\ exc' = "none"
  /\ i' = i + 1
  /\ pc' = "main"
  /\ UNCHANGED <<dry_run, dry_run_loop, source_specs, destination_spec, entry,
                 scan, initial, rehearsal, calls, device, destination, scope, deletion_iterator,
                 globbing, log, spawned, attempted, old>>

\* A handler that catches every exception and goes on: a faulty
\* variant.
main_uncaught_swallowed ==
  /\ pc = "handler"
  /\ exc # "MountError"
  /\ exc' = "none"
  /\ i' = i + 1
  /\ pc' = "main"
  /\ UNCHANGED <<config, device, destination, scope, deletion_iterator,
                 globbing, log, spawned, attempted, old>>

\* Any other exception leaves main: the run ends with it.
main_uncaught ==
  /\ pc = "handler"
  /\ exc # "MountError"
  /\ pc' = "fatal"
  /\ UNCHANGED <<config, device, destination, scope, i, exc,
                 deletion_iterator, globbing, log, spawned, attempted, old>>

\* ------------------------------------------------------- initial states
\* The directories over the names N whose regular files have a size in
\* `sizes` and an mtime in `times`; "dir0", when there, is a subdirectory.
Trees(N, sizes, times) ==
  {d \in [Names -> {Absent}
                     \cup {File(z, t, <<>>) : z \in sizes, t \in times}
                     \cup {Dir(z, t) : z \in sizes, t \in times}] :
     \A n \in Names :
       /\ n \notin N => d[n] = Absent
       /\ n \in FileNames => d[n].kind # "dir"
       /\ n \in DirNames => d[n].kind # "file"}

\* Each regular file gets a content of its own: <<k, name>> for the file
\* `name` that starts on device k, k = 0 for the destination.
Born(k, d) ==
  [n \in Names |-> IF d[n].kind = "file"
                     THEN File(d[n].size, d[n].mtime, <<k, n>>) ELSE d[n]]

Sizes == 0..MaxSize
Times == 1..MaxTime

\* The pattern lists of at most two patterns.
PatternLists ==
  {<<>>} \cup {<<p>> : p \in Patterns}
         \cup {<<p, q>> : p \in Patterns, q \in Patterns}

SourceSpec(location, pats, dels) ==
  [location |-> location, patterns |-> pats, delete_patterns |-> dels]

\* What every run starts with, whatever it is started with.
InitCommon ==
  /\ exc = "none"
  /\ deletion_iterator = NotStarted
  /\ pattern_idx = 0
  /\ items = <<>>
  /\ log = <<>>
  /\ spawned = <<>>
  /\ attempted = <<>>
  /\ skipped = <<>>
  /\ i = 1
  /\ old = Snapshot
  /\ initial = [device |-> device, destination |-> destination,
                tmpdirs |-> tmpdirs]
  /\ rehearsal = [made |-> FALSE, log |-> <<>>]
  /\ calls = 0

\* A call of one step on its own, as the unit tests make it: source_path is
\* a directory that is there already (device 1, mounted on directory 1), and
\* the filesystem may enumerate names in any order.  The steps read the two
\* flags only as `_DRY_RUN.value or _DRY_RUN_LOOP.value`.
InitStep ==
  /\ dry_run = FALSE
  /\ dry_run_loop \in BOOLEAN
  /\ tmpdirs = {1}
  /\ tmp_count = 1
  /\ mounts = {1}
  /\ source_path = 1
  /\ returncode = 0
  /\ scan = Orders(Names)

\* loop_delete(destination_path, loop_size) on any destination.
InitLoop ==
  /\ entry = "loop_delete"
  /\ pc = "loop_delete"
  /\ source_specs = <<SourceSpec("storage_device", <<>>, <<>>)>>
  /\ device = <<EmptyDirectory>>
  /\ destination \in {Born(0, d) : d \in Trees(Names, Sizes, Times)}
  /\ destination_spec \in
       [is_dir : {TRUE}, loop_size : 0..MaxLoopSize]
  /\ InitStep
  /\ InitCommon

SpecLoop == InitLoop /\ [][loop_delete]_vars

\* ------------------------------------------------- loop_delete: the claims
\* The sum of the st_size of the entries of d.
TotalSize(d) == SumSizes(d, {n \in Names : d[n].kind \in {"file", "dir"}})

NotDry == ~dry_run /\ ~dry_run_loop

Evicted == Entries(old.destination) \ Entries(destination)

DistinctMtimes(d) ==
  \A m, n \in Entries(d) : m # n => d[m].mtime # d[n].mtime

\* C1: when a non-dry-run loop_delete has returned, the total size of the
\* destination is at most loop_size, or the destination is empty.
C1_LoopDeletePostcondition ==
  (entry = "loop_delete" /\ pc = "returned" /\ NotDry)
    => \/ TotalSize(destination) <= destination_spec.loop_size
       \/ Entries(destination) = {}

\* A non-dry-run loop_delete has returned after evicting part of a
\* destination that was over quota.
C1_Witness ==
  /\ entry = "loop_delete" /\ pc = "returned" /\ NotDry
  /\ TotalSize(old.destination) > destination_spec.loop_size
  /\ Evicted # {}
  /\ Entries(destination) # {}

\* C2: with pairwise distinct mtimes, every entry loop_delete has removed is
\* strictly older than every entry still in the destination: the removed
\* entries are a prefix of the ascending-mtime order.
C2_OldestFirst ==
  (entry = "loop_delete" /\ NotDry /\ DistinctMtimes(old.destination))
    => \A n \in Evicted : \A r \in Entries(destination) :
         old.destination[n].mtime < destination[r].mtime

\* Two files of a destination with distinct mtimes were evicted and a newer
\* entry remains.
C2_Witness ==
  /\ entry = "loop_delete" /\ pc = "returned" /\ NotDry
  /\ DistinctMtimes(old.destination)
  /\ Cardinality(Evicted) >= 2
  /\ Entries(destination) # {}

\* C3: every step of loop_delete that changes the destination starts with a
\* total size above loop_size, and a destination that starts within quota
\* is left as it was.
C3_NoDeletionWithinQuota ==
  [][entry = "loop_delete" =>
       /\ destination' # destination
            => TotalSize(destination) > destination_spec.loop_size
       /\ TotalSize(old.destination) <= destination_spec.loop_size
            => destination' = old.destination]_vars

\* loop_delete has evicted a file and returned with entries left that fill
\* the quota exactly: one more eviction would have been one too many.
C3_Witness ==
  /\ entry = "loop_delete" /\ pc = "returned" /\ NotDry
  /\ Evicted # {}
  /\ Entries(destination) # {}
  /\ TotalSize(destination) = destination_spec.loop_size

\* C4: loop_delete returns normally on every destination tree and every
\* non-negative loop_size: it never ends by raising.
C4_LoopDeleteNeverRaises ==
  entry = "loop_delete" => pc # "raised"

\* The source directories the steps are called on: files of the largest
\* size, old or new, and possibly the subdirectory.
SourceTrees == Trees(Names, {MaxSize}, {1, MaxTime})

\* The destinations the source steps are called with: possibly a file under
\* a name the source uses too, possibly the subdirectory.
HeldTrees == Trees({<<"file0", "MP4">>, <<"dir0">>}, {MaxSize}, {MaxTime})

\* archive_move(source_path, destination_path, patterns)
InitMove ==
  /\ entry = "archive_move"
  /\ pc = "archive_move"
  /\ source_specs \in
       {<<SourceSpec("storage_device", pats, <<>>)>> : pats \in PatternLists}
  /\ device \in {<<Born(1, d)>> : d \in SourceTrees}
  /\ destination \in {Born(0, d) : d \in HeldTrees}
  /\ destination_spec = [is_dir |-> TRUE, loop_size |-> MaxLoopSize]
  /\ InitStep
  /\ InitCommon

SpecMove == InitMove /\ [][archive_move]_vars

\* archive_delete(source_path, patterns)
InitDelete ==
  /\ entry = "archive_delete"
  /\ pc = "archive_delete"
  /\ source_specs \in
       {<<SourceSpec("storage_device", <<>>, dels)>> : dels \in PatternLists}
  /\ device \in {<<Born(1, d)>> : d \in SourceTrees}
  /\ destination \in {Born(0, d) : d \in HeldTrees}
  /\ destination_spec = [is_dir |-> TRUE, loop_size |-> MaxLoopSize]
  /\ InitStep
  /\ InitCommon

SpecDelete == InitDelete /\ [][archive_delete]_vars

\* ------------------------------------------------------------ the whole run
\* The enumeration orders of the whole run: one of two, fixed for the run.
ScanOrders ==
  {<<<<"file0", "MP4">>, <<"file1", "MP4">>, <<"file0", "THM">>, <<"dir0">>>>,
   <<<<"dir0">>, <<"file0", "THM">>, <<"file1", "MP4">>, <<"file0", "MP4">>>>}

\* What device k holds: unit-size files, file0 older than file1, and the
\* subdirectory or not.
PlainDevice(k) ==
  Born(k, [n \in Names |->
             IF n = <<"file0", "MP4">> THEN File(1, k, <<>>)
             ELSE IF n = <<"file1", "MP4">> THEN File(1, k + 1, <<>>)
             ELSE IF n = <<"file0", "THM">> THEN File(1, k, <<>>)
             ELSE Absent])

DeviceWithDir(k) == [PlainDevice(k) EXCEPT ![<<"dir0">>] = Dir(1, k)]

\* A source of the configuration with its device: an unsupported location,
\* or a storage device with its patterns.
Sources(k) ==
  {[spec |-> SourceSpec("none", <<>>, <<>>), device |-> EmptyDirectory]}
  \cup
  {[spec |-> SourceSpec("storage_device", <<p>>, <<q>>), device |-> d] :
     p \in {<<"*", "MP4">>, <<"*">>},
     q \in {<<"*", "THM">>, <<"*">>},
     d \in {PlainDevice(k), DeviceWithDir(k)}}

\* The destination of the configuration: not a directory, or a directory
\* with its quota and what it holds.
HeldFile == [EmptyDirectory EXCEPT
               ![<<"file1", "MP4">>] = File(1, 1, <<0, <<"file1", "MP4">>>>)]

Destinations ==
  {[spec |-> [is_dir |-> FALSE, loop_size |-> 0], held |-> EmptyDirectory]}
  \cup
  {[spec |-> [is_dir |-> TRUE, loop_size |-> q], held |-> d] :
     q \in 0..MaxLoopSize,
     d \in {EmptyDirectory, HeldFile,
            [HeldFile EXCEPT ![<<"dir0">>] = Dir(1, 1)]}}

\* main(): two sources, one destination.
Init ==
  /\ entry = "main"
  /\ pc = "main"
  /\ \E s1 \in Sources(1), s2 \in Sources(2) :
       /\ source_specs = <<s1.spec, s2.spec>>
       /\ device = <<s1.device, s2.device>>
  /\ \E dst \in Destinations :
       /\ destination_spec = dst.spec
       /\ destination = dst.held
  /\ dry_run \in BOOLEAN
  /\ dry_run_loop \in BOOLEAN
  /\ scan \in {{o} : o \in ScanOrders}
  /\ tmpdirs = {}
  /\ tmp_count = 0
  /\ mounts = {}
  /\ source_path = 0
  /\ returncode = 0
  /\ InitCommon

archive ==
  \/ archive_validate
  \/ archive_invalid_destination
  \/ setup_source_spec
  \/ setup_source_spec_mount_error
  \/ setup_source_spec_unsupported
  \/ archive_move
  \/ loop_delete
  \/ archive_delete
  \/ teardown_source_spec
  \/ teardown_source_spec_umount_error

main ==
  \/ main_archive
  \/ archive
  \/ main_except_MountError
  \/ main_uncaught
  \/ main_done

Next == main

Spec == Init /\ [][Next]_vars

\* -------------------------------------------------- the scope: the claims
\* The positions inside the body of the with statement of archive().
ScopeBody == {"archive_move", "archive_move_unlink", "loop_delete",
              "archive_delete"}

\* C5: every way out of the body of the with statement, a raise of
\* archive_move, loop_delete or archive_delete included, goes through the
\* exit step; the exit step invokes umount on the resolved path and, when
\* umount succeeds, removes the temporary directory, which then is gone.
C5_LeaseReleased ==
  [][entry = "main" =>
       /\ (pc \in ScopeBody /\ pc' \notin ScopeBody) => pc' = "exit"
       /\ pc = "exit" =>
            /\ ~dry_run =>
                 spawned' = Append(spawned, <<"umount", source_path>>)
            /\ returncode' = 0 =>
                 /\ source_path \notin tmpdirs'
                 /\ source_path \notin mounts'
                 /\ source_path' = 0]_vars

\* A step of the body raised, and the exit step then unmounted and removed
\* the temporary directory of the scope.
C5_Witness ==
  /\ entry = "main" /\ pc = "handler"
  /\ exc \in {"IsADirectoryError", "FileNotFoundError", "StopIteration"}
  /\ tmp_count >= 1 /\ source_path = 0
  /\ tmp_count \notin tmpdirs
  /\ spawned # <<>> /\ spawned[Len(spawned)] = <<"umount", tmp_count>>

\* C6: once the caller has handled the MountError of a failed mount, the
\* temporary directory made for that mount is gone: while the driver is
\* between two sources, or done, no temporary directory exists.
C6_NoDanglingTmpdir ==
  (entry = "main" /\ pc \in {"main", "done"}) => tmpdirs = {}

\* ------------------------------------------------- the driver: the claims
\* The sources 1..n in configuration order.
UpTo(n) == [k \in 1..n |-> k]

\* C7: a MountError never ends the run: the driver goes on with the next
\* source, each source is attempted in configuration order, and a run that
\* meets no other error ends normally with every source attempted.
C7_MountErrorSkipsSource ==
  entry = "main" =>
    /\ attempted = UpTo(Len(attempted))
    /\ \A j \in 1..Len(skipped) : skipped[j] \in 1..Len(attempted)
    /\ pc = "fatal" => exc # "MountError"
    /\ (pc = "main" /\ i <= Len(source_specs)) => Len(attempted) = i - 1
    /\ pc = "done" => attempted = UpTo(Len(source_specs))
    /\ pc \notin {"done", "fatal"} => ENABLED Next

\* The mount of the first source failed, the second source was archived
\* and the run ended normally.
C7_Witness ==
  /\ entry = "main" /\ pc = "done"
  /\ skipped = <<1>>
  /\ attempted = <<1, 2>>
  /\ \E j \in 1..Len(log) : log[j][1] = "move"

\* C8: an exception that is no MountError is not caught by the driver: the
\* run ends with it and no later source is processed.  A failing umount
\* raises RuntimeError, an unsupported location and a destination that is
\* no directory raise ValueError, and none of them is a MountError.
C8_OtherErrorsFatal ==
  [][entry = "main" =>
       /\ (pc = "handler" /\ exc # "MountError")
            => pc' = "fatal" /\ exc' = exc /\ attempted' = attempted
       /\ pc # "fatal"
       /\ (pc = "exit" /\ returncode' # 0)
            => pc' = "handler" /\ exc' = "RuntimeError"
       /\ (pc = "enter" /\ source_specs[i].location # "storage_device")
            => pc' = "handler" /\ exc' = "ValueError"
       /\ (pc = "archive" /\ ~destination_spec.is_dir)
            => pc' = "handler" /\ exc' = "ValueError"]_vars

\* The umount of the first source failed and the run ended there, the
\* second source never attempted.
C8_Witness ==
  /\ entry = "main" /\ pc = "fatal"
  /\ exc = "RuntimeError" /\ returncode # 0
  /\ attempted = <<1>>
  /\ Len(source_specs) = 2

\* ------------------------------------------ archive_move: the claims
\* The regular files of d that match at least one pattern of pats.
Selected(d, pats) ==
  {n \in Names : d[n].kind = "file"
                 /\ \E j \in 1..Len(pats) : Matches(pats[j], n)}

\* C9: when a non-dry-run archive_move has returned, every source file that
\* matches a pattern is gone from the source and is in the destination under
\* its name with its content, size and mtime; every other entry of the
\* source, and every other entry of the destination, is as it was.
C9_ArchiveMovePostcondition ==
  (entry = "archive_move" /\ pc = "returned" /\ NotDry) =>
    \A n \in Names :
      IF n \in Selected(old.source, source_specs[1].patterns)
        THEN /\ SourceDir[n] = Absent
             /\ destination[n] = old.source[n]
        ELSE /\ SourceDir[n] = old.source[n]
             /\ destination[n] = old.destination[n]

\* archive_move has returned after moving some files of the source, one of
\* them an old file, and leaving others.
C9_Witness ==
  /\ entry = "archive_move" /\ pc = "returned" /\ NotDry
  /\ \E n \in Selected(old.source, source_specs[1].patterns) :
       old.source[n].mtime < MaxTime
  /\ Entries(SourceDir) # {}
  /\ Cardinality(Entries(old.source) \ Entries(SourceDir)) >= 2

\* ---------------------------------------- archive_delete: the claims
\* C10: when a non-dry-run archive_delete has returned, every source file
\* that matches a delete pattern is gone, every other entry of the source is
\* as it was, and so is the destination.
C10_ArchiveDeletePostcondition ==
  (entry = "archive_delete" /\ pc = "returned" /\ NotDry) =>
    /\ \A n \in Names :
         IF n \in Selected(old.source, source_specs[1].delete_patterns)
           THEN SourceDir[n] = Absent
           ELSE SourceDir[n] = old.source[n]
    /\ destination = old.destination

\* archive_delete has returned after removing some files of the source and
\* leaving others, the destination holding entries.
C10_Witness ==
  /\ entry = "archive_delete" /\ pc = "returned" /\ NotDry
  /\ Cardinality(Entries(old.source) \ Entries(SourceDir)) >= 2
  /\ Entries(SourceDir) # {}
  /\ Entries(destination) # {}

\* --------------------------------------------------- one call of archive()
\* A run over one source.  Either any device of unit-size regular files
\* archived without dry run into an empty destination, under any pattern
\* list and some delete patterns; or one of the sources and destinations of
\* the whole run, under any flags.
InitArchive ==
  /\ entry = "main"
  /\ pc = "main"
  /\ \/ /\ dry_run = FALSE
        /\ dry_run_loop = FALSE
        /\ source_specs \in
             {<<SourceSpec("storage_device", pats, dels)>> :
                pats \in PatternLists,
                dels \in {<<>>, <<<<"*", "THM">>>>, <<<<"*">>>>}}
        /\ device \in {<<Born(1, d)>> : d \in Trees(FileNames, {1}, Times)}
        /\ destination_spec \in [is_dir : {TRUE}, loop_size : 0..MaxLoopSize]
        /\ destination = EmptyDirectory
     \/ /\ dry_run \in BOOLEAN
        /\ dry_run_loop \in BOOLEAN
        /\ \E s1 \in Sources(1) :
             /\ source_specs = <<s1.spec>>
             /\ device = <<s1.device>>
        /\ \E dst \in Destinations :
             /\ destination_spec = dst.spec
             /\ destination = dst.held
  /\ scan \in {{o} : o \in ScanOrders}
  /\ tmpdirs = {}
  /\ tmp_count = 0
  /\ mounts = {}
  /\ source_path = 0
  /\ returncode = 0
  /\ InitCommon

SpecArchive == InitArchive /\ [][Next]_vars

\* ------------------------------------------------- archive(): the claims
\* The names of S that fewer than q names of S beat in mtime: the q newest.
Newest(d, S, q) ==
  {n \in S : Cardinality({x \in S : d[x].mtime > d[n].mtime}) < q}

\* A mountable storage device of unit-size regular files with pairwise
\* distinct mtimes is archived, not in a dry run, into a destination that
\* starts empty.
EndToEndCase ==
  /\ entry = "main" /\ Len(source_specs) = 1 /\ NotDry
  /\ source_specs[1].location = "storage_device"
  /\ destination_spec.is_dir
  /\ initial.destination = EmptyDirectory
  /\ \A n \in Entries(initial.device[1]) :
       initial.device[1][n].kind = "file" /\ initial.device[1][n].size = 1
  /\ DistinctMtimes(initial.device[1])

\* C11: in that case, when archive() has returned, the destination holds
\* exactly the min(q, m) newest of the m source files that match `patterns`,
\* each as it was on the device, and no file of the source matches
\* `patterns` or `delete_patterns`.
C11_EndToEnd ==
  (EndToEndCase /\ pc = "done" /\ skipped = <<>>) =>
    LET moved == Selected(initial.device[1], source_specs[1].patterns)
        kept == Newest(initial.device[1], moved, destination_spec.loop_size)
    IN /\ Entries(destination) = kept
       /\ \A n \in kept : destination[n] = initial.device[1][n]
       /\ Selected(device[1], source_specs[1].patterns) = {}
       /\ Selected(device[1], source_specs[1].delete_patterns) = {}

\* archive() has returned in that case with more matching files than the
\* quota holds: some were evicted, some are kept, and a delete pattern
\* emptied the source.
C11_Witness ==
  /\ EndToEndCase /\ pc = "done" /\ skipped = <<>>
  /\ destination_spec.loop_size >= 1
  /\ Cardinality(Selected(initial.device[1], source_specs[1].patterns))
       > destination_spec.loop_size
  /\ Entries(initial.device[1]) = FileNames
  /\ source_specs[1].delete_patterns # <<>>
  /\ Selected(initial.device[1], source_specs[1].patterns) # FileNames
  /\ Entries(device[1]) = {}

\* ------------------------------------------------------ dry run: the claims
\* C12: under the global dry-run flag the files and directories of the
\* sources, of the destination and the temporary directories are, in every
\* state of the run, those the run began with, and no command was executed.
C12_DryRunNoMutation ==
  (entry = "main" /\ dry_run) =>
    /\ device = initial.device
    /\ destination = initial.destination
    /\ tmpdirs = initial.tmpdirs
    /\ spawned = <<>>

\* The program is started again with both dry-run flags off after a full
\* dry run has ended: the same configuration, the filesystem the dry run
\* left.  The log of the dry run is kept for comparison.
main_rerun ==
  /\ entry = "main"
  /\ pc = "done"
  /\ dry_run
  /\ ~rehearsal.made
  /\ rehearsal' = [made |-> TRUE, log |-> log]
  /\ dry_run' = FALSE
  /\ dry_run_loop' = FALSE
  /\ log' = <<>>
  /\ spawned' = <<>>
  /\ attempted' = <<>>
  /\ i' = 1
  /\ pc' = "main"
  /\ UNCHANGED <<source_specs, destination_spec, entry, skipped, scan,
                 initial, calls, device, destination, scope, exc,
                 deletion_iterator, globbing, old>>

\* A run of main, and after a full dry run the real run that follows it.
SpecFidelity == InitArchive /\ [][Next \/ main_rerun]_vars

\* C13: the move, eviction and delete actions a full dry run logged are, in
\* the same order, the actions the real run started from the same initial
\* state performs.
C13_DryRunFidelity ==
  (rehearsal.made /\ pc = "done" /\ skipped = <<>>) =>
    log = rehearsal.log

\* ------------------------------------------ SourcePathContext used alone
\* The number of calls made on one SourcePathContext.
MaxCalls == 4

\* A setup that notices the set-up scope only after mkdtemp: a faulty
\* variant.
setup_source_spec_already_setup_late ==
  /\ pc = "enter"
  /\ source_path # 0
  /\ tmp_count' = tmp_count + 1
  /\ tmpdirs' = tmpdirs \cup {tmp_count + 1}
  /\ exc' = "RuntimeError"
  /\ pc' = Raise
  /\ UNCHANGED <<config, device, destination, mounts, source_path,
                 returncode, i, deletion_iterator, globbing, log, spawned,
                 attempted, old>>

\* setup_source_spec on a scope whose source_path is set: RuntimeError
\* before the location is looked at.
setup_source_spec_already_setup ==
  /\ pc = "enter"
  /\ source_path # 0
  /\ exc' = "RuntimeError"
  /\ pc' = Raise
  /\ UNCHANGED <<config, device, destination, scope, i, deletion_iterator,
                 globbing, log, spawned, attempted, old>>

\* teardown_source_spec while source_path is None: umount(None) exits 0,
\* then None.rmdir() raises AttributeError.
teardown_source_spec_uninitialized ==
  /\ pc = "exit"
  /\ source_specs[i].location = "storage_device"
  /\ source_path = 0
  /\ \E code \in ReturnCodes :
       /\ code = 0
       /\ returncode' = code
       /\ spawned' = _run_process(<<"umount", source_path>>)
  /\ exc' = "AttributeError"
  /\ pc' = Raise
  /\ UNCHANGED <<config, device, destination, tmpdirs, tmp_count, mounts,
                 source_path, i, deletion_iterator, globbing, log, attempted,
                 old>>

\* teardown_source_spec, unsupported location: ValueError.
teardown_source_spec_unsupported ==
  /\ pc = "exit"
  /\ source_specs[i].location # "storage_device"
  /\ exc' = "ValueError"
  /\ pc' = Raise
  /\ UNCHANGED <<config, device, destination, scope, i, deletion_iterator,
                 globbing, log, spawned, attempted, old>>

\* The user of the scope object calls setup_source_spec().
call_setup_source_spec ==
  /\ entry = "scope"
  /\ pc \in {"idle", "returned", "raised"}
  /\ calls < MaxCalls
  /\ calls' = calls + 1
  /\ exc' = "none"
  /\ pc' = "enter"
  /\ UNCHANGED <<dry_run, dry_run_loop, source_specs, destination_spec, entry,
                 skipped, scan, initial, rehearsal, device, destination,
                 scope, i, deletion_iterator, globbing, log, spawned,
                 attempted, old>>

\* The user of the scope object calls teardown_source_spec().
call_teardown_source_spec ==
  /\ entry = "scope"
  /\ pc \in {"idle", "returned", "raised"}
  /\ calls < MaxCalls
  /\ calls' = calls + 1
  /\ exc' = "none"
  /\ pc' = "exit"
  /\ UNCHANGED <<dry_run, dry_run_loop, source_specs, destination_spec, entry,
                 skipped, scan, initial, rehearsal, device, destination,
                 scope, i, deletion_iterator, globbing, log, spawned,
                 attempted, old>>

SourcePathContext ==
  \/ call_setup_source_spec
  \/ call_teardown_source_spec
  \/ setup_source_spec
  \/ setup_source_spec_mount_error
  \/ setup_source_spec_unsupported
  \/ setup_source_spec_already_setup
  \/ teardown_source_spec
  \/ teardown_source_spec_umount_error
  \/ teardown_source_spec_uninitialized
  \/ teardown_source_spec_unsupported

\* SourcePathContext(source_spec): source_path is None, nothing is mounted.
InitScope ==
  /\ entry = "scope"
  /\ pc = "idle"
  /\ dry_run \in BOOLEAN
  /\ dry_run_loop = FALSE
  /\ \E s \in Sources(1) :
       /\ source_specs = <<s.spec>>
       /\ device = <<s.device>>
  /\ destination_spec = [is_dir |-> TRUE, loop_size |-> 0]
  /\ destination = EmptyDirectory
  /\ scan \in {{o} : o \in ScanOrders}
  /\ tmpdirs = {}
  /\ tmp_count = 0
  /\ mounts = {}
  /\ source_path = 0
  /\ returncode = 0
  /\ InitCommon

SpecScope == InitScope /\ [][SourcePathContext]_vars

\* The mount commands executed so far.
Mounted == {k \in DOMAIN spawned : spawned[k][1] = "mount"}

\* C14 as stated: one scope object creates at most one temporary directory
\* and performs at most one mount in its lifetime.
C14_SingleUse ==
  entry = "scope" => (tmp_count <= 1 /\ Cardinality(Mounted) <= 1)

\* C14, amended: a setup call on a scope that is set up fails with
\* RuntimeError, creates no temporary directory and runs no mount; a
\* temporary directory is created only while source_path is None, which a
\* successful teardown restores, so the scope holds at most one mount at a
\* time.
C14_NoSetupWhileSetUp ==
  /\ [](entry = "scope" => (mounts \subseteq {source_path}
                            /\ (source_path = 0 \/ source_path = tmp_count)))
  /\ [][entry = "scope" =>
          /\ (pc = "enter" /\ source_path # 0) =>
               /\ exc' = "RuntimeError"
               /\ pc' = "raised"
               /\ UNCHANGED <<tmpdirs, tmp_count, mounts, source_path,
                              spawned>>
          /\ tmp_count' # tmp_count => source_path = 0
          /\ (pc = "exit" /\ pc' = "returned") => source_path' = 0]_vars

\* A second setup succeeded after a teardown, and a setup on the set-up
\* scope was refused.
C14_Witness ==
  /\ entry = "scope"
  /\ ~dry_run
  /\ tmp_count = 2
  /\ source_path = 2
  /\ mounts = {2}
  /\ tmpdirs = {2}
  /\ pc = "raised"
  /\ exc = "RuntimeError"
  /\ calls = 4
  /\ spawned = <<<<"mount", 1>>, <<"umount", 1>>, <<"mount", 2>>>>

\* ------------------------------------------------- archive(): step order
\* The steps of one archive() call, numbered in the order of the code.
Rank(p) ==
  CASE p = "archive" -> 1
    [] p = "enter" -> 2
    [] p \in {"archive_move", "archive_move_unlink"} -> 3
    [] p = "loop_delete" -> 4
    [] p = "archive_delete" -> 5
    [] p = "exit" -> 6
    [] OTHER -> 0

Logged(kind) == {k \in DOMAIN log : log[k][1] = kind}

\* C15: within one archive() call the steps follow each other in the order
\* validation, scope entry, archive_move, loop_delete, archive_delete,
\* teardown: control goes from a step to itself or to the next one, or from
\* a raising step of the body to the teardown; the destination gains files
\* only in archive_move and loses entries only in loop_delete, the source
\* changes only in archive_move and archive_delete, mount is run only at
\* scope entry and umount only at teardown.
C15_StepOrder ==
  [][entry = "main" =>
       /\ (Rank(pc) = 0 /\ Rank(pc') # 0) => (pc = "main" /\ pc' = "archive")
       /\ (Rank(pc) # 0 /\ Rank(pc') # 0) =>
            \/ Rank(pc') = Rank(pc)
            \/ Rank(pc') = Rank(pc) + 1 /\ exc' = "none"
            \/ Rank(pc) \in 3..5 /\ pc' = "exit" /\ exc' # "none"
       /\ (\E n \in Names : destination[n].kind # "absent"
                            /\ destination'[n].kind = "absent")
            => pc = "loop_delete"
       /\ (\E n \in Names : destination'[n] # destination[n]
                            /\ destination'[n].kind # "absent")
            => pc = "archive_move"
       /\ device' # device => pc \in {"archive_move_unlink", "archive_delete"}
       /\ (spawned' # spawned /\ pc = "enter") =>
            spawned' = Append(spawned, <<"mount", source_path'>>)
       /\ spawned' # spawned => pc \in {"enter", "exit"}
       /\ (spawned' # spawned /\ pc = "exit") =>
            spawned' = Append(spawned, <<"umount", source_path>>)]_vars

\* All three steps of the body acted and the teardown is next.
C15_Witness ==
  /\ entry = "main"
  /\ NotDry
  /\ pc = "exit"
  /\ exc = "none"
  /\ i = 1
  /\ Logged("move") # {}
  /\ Logged("loop") # {}
  /\ Logged("delete") # {}

\* --------------------------------------------------- configuration errors
\* What an archive() call can have touched: the files, the temporary
\* directories, the mounts, the commands run and the actions logged.
Effects == <<device, destination, tmpdirs, tmp_count, mounts, spawned, log>>

\* The configuration of source i is in error.
ConfigurationError ==
  \/ ~destination_spec.is_dir
  \/ source_specs[i].location # "storage_device"

\* C16: an archive() call whose destination is not a directory or whose
\* source location is unsupported fails with ValueError, and between its
\* start and that failure no temporary directory is created, no command is
\* run and no file is moved, evicted or deleted; ValueError arises nowhere
\* else.
C16_ConfigurationErrorFirst ==
  [][entry = "main" =>
       /\ (pc = "archive" /\ ~destination_spec.is_dir) =>
            (exc' = "ValueError" /\ pc' = "handler")
       /\ (pc = "enter" /\ source_specs[i].location # "storage_device") =>
            (exc' = "ValueError" /\ pc' = "handler")
       /\ (pc \in {"main", "archive", "enter"} /\ i <= Len(source_specs)
           /\ ConfigurationError) => UNCHANGED Effects
       /\ (exc' = "ValueError" /\ exc # "ValueError") =>
            (pc \in {"archive", "enter"} /\ ConfigurationError)]_vars

\* The second source is in error after the first one was archived, and
\* main is about to end with the ValueError.
C16_Witness ==
  /\ entry = "main"
  /\ NotDry
  /\ pc = "handler"
  /\ exc = "ValueError"
  /\ i = 2
  /\ destination_spec.is_dir
  /\ Logged("move") # {}
  /\ tmpdirs = {}
  /\ spawned = <<<<"mount", 1>>, <<"umount", 1>>>>

\* ------------------------------------------- files matching two patterns
\* archive_move or archive_delete, called on its own.
SpecSourceSteps ==
  (InitMove \/ InitDelete) /\ [][archive_move \/ archive_delete]_vars

SourceStep == entry \in {"archive_move", "archive_delete"}

\* The patterns of the step that runs and the kind of its log entries.
StepPatterns == IF entry = "archive_move" THEN patterns ELSE delete_patterns

StepKind == IF entry = "archive_move" THEN "move" ELSE "delete"

\* How often entry n was processed, and how many of the patterns match it.
Processed(n) == Cardinality({k \in DOMAIN log : log[k] = <<StepKind, n>>})

MatchCount(n) ==
  Cardinality({k \in DOMAIN StepPatterns : Matches(StepPatterns[k], n)})

\* C17 as stated: when a non-dry archive_move or archive_delete has
\* returned, every entry of the source was processed once per pattern
\* matching it.
C17_ProcessedPerMatch ==
  (SourceStep /\ NotDry /\ pc = "returned") =>
    \A n \in Entries(old.source) : Processed(n) = MatchCount(n)

\* C17, amended: in a non-dry archive_move or archive_delete an entry of
\* the source is processed at most once, under the first pattern matching
\* it: the glob of a later pattern is taken after the entry has left the
\* source, so no attempt ever targets an absent entry, and on return every
\* matched entry was processed exactly once.
C17_ProcessedOnce ==
  (SourceStep /\ NotDry) =>
    /\ \A n \in Names : Processed(n) <= 1
    /\ \A k \in DOMAIN items : SourceDir[items[k]].kind # "absent"
    /\ exc # "FileNotFoundError"
    /\ pc = "returned" =>
         \A n \in Entries(old.source) :
           Processed(n) = IF MatchCount(n) > 0 THEN 1 ELSE 0

\* A step has returned after processing a file that two patterns match.
C17_Witness ==
  /\ SourceStep
  /\ NotDry
  /\ pc = "returned"
  /\ \E n \in Entries(old.source) : MatchCount(n) = 2 /\ Processed(n) = 1
  /\ \E n \in Entries(old.source) : MatchCount(n) = 0

\* ------------------------------------------------------ the narrow dry run
NarrowDryRun == entry = "main" /\ dry_run_loop /\ ~dry_run

\* C18: with dry_run_loop set and dry_run unset, scope entry creates the
\* temporary directory and runs mount, teardown runs umount and, when it
\* succeeds, removes the temporary directory; no file of a source or of the
\* destination ever changes, and loop_delete logs one candidate and returns.
C18_NarrowDryRun ==
  /\ [](NarrowDryRun => (device = initial.device
                         /\ destination = initial.destination))
  /\ [][NarrowDryRun =>
          /\ (pc = "enter" /\ source_specs[i].location = "storage_device") =>
               /\ tmpdirs' = tmpdirs \cup {source_path'}
               /\ source_path' \notin tmpdirs
               /\ spawned' = Append(spawned, <<"mount", source_path'>>)
          /\ pc = "exit" =>
               /\ spawned' = Append(spawned, <<"umount", source_path>>)
               /\ returncode' = 0 => tmpdirs' = tmpdirs \ {source_path}
               /\ returncode' # 0 => tmpdirs' = tmpdirs
          /\ (pc = "loop_delete" /\ log' # log) =>
               /\ pc' = "archive_delete"
               /\ \E n \in Entries(destination) :
                    log' = Append(log, <<"loop", n>>)]_vars

\* A narrow dry run has ended: the device was mounted and unmounted, the
\* temporary directory is gone, moves, one eviction candidate and deletes
\* were logged, the files are where they were.
C18_Witness ==
  /\ NarrowDryRun
  /\ pc = "done"
  /\ Len(attempted) = 2
  /\ skipped = <<>>
  /\ spawned = <<<<"mount", 1>>, <<"umount", 1>>,
                 <<"mount", 2>>, <<"umount", 2>>>>
  /\ tmpdirs = {}
  /\ Logged("move") # {}
  /\ Cardinality(Logged("loop")) = 2
  /\ Logged("delete") # {}
  /\ Entries(destination) # {}
  /\ Entries(device[1]) # {}

\* ------------------------------------------------------ copy before remove
\* C19: in every state of a non-dry archive_move each file of the source
\* that matched a pattern is, with its content, size and mtime, in the
\* source or in the destination; an entry leaves the source only when the
\* destination holds its copy, and a step that raises changes no file.
C19_CopyBeforeRemove ==
  /\ []((entry = "archive_move" /\ NotDry) =>
          \A n \in Selected(old.source, patterns) :
            old.source[n].kind = "file" =>
              (SourceDir[n] = old.source[n] \/ destination[n] = old.source[n]))
  /\ [][(entry = "archive_move" /\ NotDry) =>
          /\ \A n \in Names :
               device'[i][n] # device[i][n] =>
                 /\ device'[i][n] = Absent
                 /\ destination[n] = device[i][n]
                 /\ destination' = destination
          /\ (exc = "none" /\ exc' # "none") =>
               (device' = device /\ destination' = destination)]_vars

\* The copy of a file is in the destination and the file still in the
\* source, its unlink being next; another file was moved before.
C19_Witness ==
  /\ entry = "archive_move"
  /\ NotDry
  /\ pc = "archive_move_unlink"
  /\ SourceDir[Head(items)] = old.source[Head(items)]
  /\ destination[Head(items)] = old.source[Head(items)]
  /\ \E n \in Selected(old.source, patterns) :
       SourceDir[n] = Absent /\ destination[n] = old.source[n]

\* ------------------------------------------------------------ conservation
\* C20: a file held in the destination, there before the run or moved in
\* from a source, keeps its content as long as it is there, and leaves the
\* destination only by an eviction of loop_delete: archive_move destroys no
\* file the destination holds.
C20_Conservation ==
  [][entry = "main" =>
       \A n \in Names :
         (destination[n].kind = "file" /\ destination'[n] # destination[n])
           => (pc = "loop_delete" /\ destination'[n] = Absent)]_vars


====
